---- MODULE Spec2Model ----
(***************************************************************************)
(* Model of Yambo.Dice (YamboClient/public/js/app/classes/yambo.dice.js):  *)
(* the five dice of the panel, their checked (held) class, the roll        *)
(* button, the rollDice fan-out / join and the combination queries.        *)
(***************************************************************************)
EXTENDS Integers, Sequences, FiniteSets, TLC

\* ------------------------------------------------------------------ bounds
\* faces the roll primitive settles on in the event specification: 1..MaxFace
MaxFace == 1
\* faces shown at the start of the selection specification: 1..MaxSelFace
MaxSelFace == 2
\* rollDice calls made in one behaviour of the event specification
MaxCalls == 2
\* diceClick events handled in one behaviour of the event specification
MaxClicks == 1
\* results a call receives beyond the number of rolls it dispatched, in the
\* repeated-delivery specification
MaxExtra == 1

\* --------------------------------------------------------------- constants
\* getDiceValues: for (; i < 5; i += 1)
NumDice == 5
\* getDiceCounts: for (var i = 1; i <= 6; i++)
NumFaces == 6

Dice == 0 .. (NumDice - 1)

VARIABLES
    val,        \* val[d]: the value attribute of die d's input, a string of characters
    checked,    \* checked[d]: die d carries classes.checked
    disabled,   \* the roll button's disabled property
    active,     \* the roll button carries classes.active
    leaveBound, \* a one-shot buttonLeave handler is bound to the button
    calls,      \* the rollDice calls made so far, each with its closure state
    clicks,     \* the number of diceClick events handled so far
    ev,         \* the event handled by the last step; a diceClick records the
                \* selection before it and whether it repeats the click before it
    ret         \* the value returned by the last query

vars == <<val, checked, disabled, active, leaveBound, calls, clicks, ev, ret>>

\* ------------------------------------------------------- JavaScript values
\* a value is tagged with its type; a number is an integer or NaN
JsNum(n) == [t |-> "number", nan |-> FALSE, v |-> n]
JsNaN == [t |-> "number", nan |-> TRUE, v |-> 0]
JsBool(b) == [t |-> "boolean", nan |-> FALSE, v |-> IF b THEN 1 ELSE 0]
JsFalse == JsBool(FALSE)

\* ToBoolean: false, 0 and NaN are falsy
Truthy(x) ==
    IF x.t = "boolean" THEN x.v = 1 ELSE (~x.nan) /\ (x.v # 0)

\* a && b and a || b return one of their operands, unconverted
JsAnd(a, b) == IF Truthy(a) THEN b ELSE a
JsOr(a, b) == IF Truthy(a) THEN a ELSE b

\* ------------------------------------------------------------ value strings
\* a value string is a sequence of one-character strings
DigitChars == <<"0", "1", "2", "3", "4", "5", "6", "7", "8", "9">>
IsDigit(ch) == \E k \in 1 .. 10 : DigitChars[k] = ch
DigitOf(ch) == (CHOOSE k \in 1 .. 10 : DigitChars[k] = ch) - 1

\* the string the roll primitive writes for face f
FaceStr(f) == <<DigitChars[f + 1]>>

RECURSIVE SkipBlanks(_)
SkipBlanks(s) ==
    IF s # <<>> /\ Head(s) = " " THEN SkipBlanks(Tail(s)) ELSE s

RECURSIVE ParseDigits(_, _, _)
\* the longest prefix of decimal digits of s: [n |-> its value, k |-> its length]
ParseDigits(s, acc, k) ==
    IF s # <<>> /\ IsDigit(Head(s))
    THEN ParseDigits(Tail(s), acc * 10 + DigitOf(Head(s)), k + 1)
    ELSE [n |-> acc, k |-> k]

\* parseInt(s, 10): blanks, a sign, then digits; NaN when there is no digit
parseInt10(s) ==
    LET t == SkipBlanks(s)
        neg == t # <<>> /\ Head(t) = "-"
        u == IF t # <<>> /\ Head(t) \in {"-", "+"} THEN Tail(t) ELSE t
        p == ParseDigits(u, 0, 0)
    IN  IF p.k = 0 THEN JsNaN ELSE JsNum(IF neg THEN 0 - p.n ELSE p.n)

\* ------------------------------------------------------------ die values
\* String(undefined), what parseInt makes of an undefined argument
UndefinedStr == <<"u", "n", "d", "e", "f", "i", "n", "e", "d">>

\* this.dice.eq(index).val(): the value string of die index; undefined when
\* eq(index) is empty, which parseInt converts to a string
valOf(index) == IF index \in DOMAIN val THEN val[index] ELSE UndefinedStr

\* getDieValue reading the die after the one asked for
getDieValue_offByOne(index) == JsOr(parseInt10(valOf(index + 1)), JsNum(0)).v

\* getDieValue(index): parseInt(this.dice.eq(index).val(), 10) || 0
getDieValue(index) == JsOr(parseInt10(valOf(index)), JsNum(0)).v

\* getDiceValues(): arr[i] = getDieValue(i) for i = 0..4 (a sequence, from 1)
getDiceValues == [k \in 1 .. NumDice |-> getDieValue(k - 1)]

RECURSIVE SumSeq(_)
SumSeq(s) == IF s = <<>> THEN 0 ELSE Head(s) + SumSeq(Tail(s))

\* getDiceTotal(): the sum of getDiceValues()
getDiceTotal == SumSeq(getDiceValues)

RECURSIVE CountEq(_, _)
\* the loop of getDiceCount: count++ for every arr[len] === value
CountEq(arr, value) ==
    IF arr = <<>> THEN 0
    ELSE (IF Head(arr) = value THEN 1 ELSE 0) + CountEq(Tail(arr), value)

\* getDiceCount(value)
getDiceCount(value) == CountEq(getDiceValues, value)

\* getDiceCounts with the loop stopping one face early (i < 6)
getDiceCounts_shortLoop ==
    [i \in 1 .. (NumFaces - 1) |-> CountEq([k \in 1 .. NumDice |-> getDieValue(k - 1)], i)]

\* getDiceCounts(): arr.push(getDiceCount(i)) for i = 1..6
getDiceCounts == [i \in 1 .. NumFaces |-> getDiceCount(i)]

\* $.inArray(x, arr): the first index (from 0) of x in arr, or -1
inArray(x, arr) ==
    IF \E k \in DOMAIN arr : arr[k] = x
    THEN (CHOOSE k \in DOMAIN arr : arr[k] = x /\ \A j \in 1 .. (k - 1) : arr[j] # x) - 1
    ELSE 0 - 1

\* ------------------------------------------------------------ combinations
isThreeOfaKind == JsBool(inArray(3, getDiceCounts) > 0 - 1)

isFourOfaKind == JsBool(inArray(4, getDiceCounts) > 0 - 1)

\* isFullhouse grouped as a && (b || c)
isFullhouse_regrouped ==
    LET arr == getDiceCounts
    IN  JsAnd(JsBool(inArray(3, arr) > 0 - 1),
              JsOr(JsBool(inArray(2, arr) > 0 - 1), JsBool(inArray(5, arr) > 0 - 1)))

\* a && b || c parses as (a && b) || c
isFullhouse ==
    LET arr == getDiceCounts
    IN  JsOr(JsAnd(JsBool(inArray(3, arr) > 0 - 1), JsBool(inArray(2, arr) > 0 - 1)),
             JsBool(inArray(5, arr) > 0 - 1))

\* isStreet with the test of the fives left out
isStreet_noFive ==
    JsAnd(JsAnd(JsAnd(JsNum(getDiceCount(2)), JsNum(getDiceCount(3))),
                JsNum(getDiceCount(4))),
          JsOr(JsNum(getDiceCount(1)), JsNum(getDiceCount(6))))

isStreet ==
    JsAnd(JsAnd(JsAnd(JsAnd(JsNum(getDiceCount(2)), JsNum(getDiceCount(3))),
                      JsNum(getDiceCount(4))),
                JsNum(getDiceCount(5))),
          JsOr(JsNum(getDiceCount(1)), JsNum(getDiceCount(6))))

isYam == JsBool(inArray(5, getDiceCounts) > 0 - 1)

\* --------------------------------------------------------------- selection
\* this.dice in document order
DiceSeq == [k \in 1 .. NumDice |-> k - 1]

Range(s) == {s[k] : k \in DOMAIN s}

\* $.grep(this.dice, fn): the elements fn keeps, in order
KeepChecked(isChecked, el) == checked[el] # isChecked

\* filter keeping the dice whose class state equals the argument (===)
filter_sameState(isChecked) ==
    SelectSeq(DiceSeq, LAMBDA el : checked[el] = isChecked)

\* filter(isChecked)
filter(isChecked) == SelectSeq(DiceSeq, LAMBDA el : KeepChecked(isChecked, el))

\* getDieCount without the test of the value
getDieCount_anyValue(value, isChecked) == filter(isChecked)

\* getDieCount(value, isChecked): the elements of filter(isChecked) whose
\* value string === value
getDieCount(value, isChecked) ==
    SelectSeq(filter(isChecked), LAMBDA el : val[el] = value)

\* el.toggleClass(classes.checked, state) on every element of els
toggleClassTo(els, state) ==
    [d \in Dice |-> IF d \in Range(els) THEN state ELSE checked[d]]

\* toggleClass replaced by addClass: the class is set, never removed
toggleClass_add(el) == [checked EXCEPT ![el] = TRUE]

\* el.toggleClass(classes.checked) on the one element el
toggleClass(el) == [checked EXCEPT ![el] = ~checked[el]]

\* diceClick(ev): ev.currentTarget is die el, multi is ev.ctrlKey || ev.metaKey
diceClick(el, multi) ==
    LET isChecked == checked[el]
    IN  /\ checked' = IF multi
                      THEN toggleClassTo(getDieCount(val[el], ~isChecked), ~isChecked)
                      ELSE toggleClass(el)
        /\ ev' = [type |-> "diceClick", die |-> el, multi |-> multi, ok |-> TRUE,
                  before |-> checked,
                  repeat |-> ev.type = "diceClick" /\ ~ev.multi /\ ~multi /\ ev.die = el]
        /\ UNCHANGED <<val, disabled, active, leaveBound, calls, ret>>

\* ------------------------------------------------------------------ rolling
\* rollDice invoking the callback at once when no die is left to roll
rollDice_joinEmpty(keepJuggling, hasCallback) ==
    LET dice == SelectSeq(DiceSeq, LAMBDA el : ~checked[el])
        len == Len(dice)
    IN  [len |-> len,
         rolled |-> [i \in 1 .. len |-> dice[i]],
         pending |-> {dice[i] : i \in 1 .. len},
         result |-> <<>>,
         keepJuggling |-> keepJuggling,
         hasCallback |-> hasCallback,
         fired |-> IF len = 0 /\ hasCallback THEN 1 ELSE 0]

\* rollDice(options, callback): the closure state of the call just made:
\* rolled: the dice roll() was invoked on, in loop order; pending: the dice whose
\* result callback has not run; fired: how often callback() has been invoked
rollDice(keepJuggling, hasCallback) ==
    LET dice == filter(TRUE)
        len == Len(dice)
    IN  [len |-> len,
         rolled |-> [i \in 1 .. len |-> dice[i]],
         pending |-> {dice[i] : i \in 1 .. len},
         result |-> <<>>,
         keepJuggling |-> keepJuggling,
         hasCallback |-> hasCallback,
         fired |-> 0]

\* the test of the result callback made on the loop index i instead of
\* result.length: i is len by the time any result arrives
CallbackDue_loopIndex(c, result) == c.hasCallback

\* the test of the result callback made on one result array shared by every
\* rollDice call instead of the array of the call
CallbackDue_sharedResult(c, result) ==
    /\ Len(result) - Len(c.result)
           + SumSeq([j \in DOMAIN calls |-> Len(calls[j].result)]) = c.len
    /\ c.hasCallback

\* the test of the result callback made with >= instead of ===
CallbackDue_atLeast(c, result) == Len(result) >= c.len /\ c.hasCallback

\* the test of the result callback, after result.push(value)
CallbackDue(c, result) == Len(result) = c.len /\ c.hasCallback

\* the result callback dropping the value of a die that is checked by the time
\* its result arrives
resultCallback_skipChecked(c, d, value) ==
    LET result == IF checked[d] THEN c.result ELSE Append(c.result, value)
    IN  [c EXCEPT !.result = result,
                  !.pending = IF checked[d] THEN c.pending ELSE c.pending \ {d},
                  !.fired = IF ~checked[d] /\ CallbackDue(c, result)
                            THEN c.fired + 1 ELSE c.fired]

\* the result callback of call c: function (value) { result.push(value); ... }
resultCallback(c, d, value) ==
    LET result == Append(c.result, value)
    IN  [c EXCEPT !.result = result,
                  !.pending = c.pending \ {d},
                  !.fired = IF CallbackDue(c, result) THEN c.fired + 1 ELSE c.fired]

\* buttonHold rolling without asking log.isValidTurn()
buttonHold_noGate(ok) ==
    /\ Len(calls) < MaxCalls
    /\ leaveBound' = TRUE
    /\ active' = TRUE
    /\ calls' = Append(calls, rollDice(TRUE, FALSE))
    /\ ev' = [type |-> "buttonHold", die |-> 0, multi |-> FALSE, ok |-> ok,
              before |-> <<>>, repeat |-> FALSE]
    /\ UNCHANGED <<val, checked, disabled, clicks, ret>>

\* buttonHold(ev): ok is what log.isValidTurn() returns
buttonHold(ok) ==
    /\ ok => Len(calls) < MaxCalls
    /\ IF ok
       THEN /\ leaveBound' = TRUE
            /\ active' = TRUE
            /\ calls' = Append(calls, rollDice(TRUE, FALSE))
       ELSE UNCHANGED <<leaveBound, active, calls>>
    /\ ev' = [type |-> "buttonHold", die |-> 0, multi |-> FALSE, ok |-> ok,
              before |-> <<>>, repeat |-> FALSE]
    /\ UNCHANGED <<val, checked, disabled, clicks, ret>>

\* buttonRelease() removing the checked class from every die before it rolls
release_resetSelection(ok, type) ==
    /\ ok => Len(calls) < MaxCalls
    /\ leaveBound' = FALSE
    /\ IF ok
       THEN /\ disabled' = TRUE
            /\ checked' = [d \in Dice |-> FALSE]
            /\ calls' = Append(calls, rollDice(FALSE, TRUE))
       ELSE UNCHANGED <<disabled, checked, calls>>
    /\ ev' = [type |-> type, die |-> 0, multi |-> FALSE, ok |-> ok,
              before |-> <<>>, repeat |-> FALSE]
    /\ UNCHANGED <<val, active, clicks, ret>>

\* the body of buttonRelease(): ok is what log.handleTurn() returns
release(ok, type) ==
    /\ ok => Len(calls) < MaxCalls
    /\ leaveBound' = FALSE
    /\ IF ok
       THEN /\ disabled' = TRUE
            /\ calls' = Append(calls, rollDice(FALSE, TRUE))
       ELSE UNCHANGED <<disabled, calls>>
    /\ ev' = [type |-> type, die |-> 0, multi |-> FALSE, ok |-> ok,
              before |-> <<>>, repeat |-> FALSE]
    /\ UNCHANGED <<val, checked, active, clicks, ret>>

\* mouseup on the button
buttonRelease(ok) == release(ok, "buttonRelease")

\* mouseleave after an accepted buttonHold: the handler bound with one()
buttonLeave(ok) == leaveBound /\ release(ok, "buttonLeave")

\* the roll primitive, $.fn.roll, settles die d on face f: the die shows f
settle(d, f) == [val EXCEPT ![d] = FaceStr(f)]

\* the callback buttonRelease passes to rollDice:
\* self.button.prop({ disabled: false }).removeClass(classes.active)
completion == disabled' = FALSE /\ active' = FALSE

\* the roll primitive settles die d of call k on face f and runs the result
\* callback of that call, which invokes the call's callback when it is due
rollResult(k, d, f) ==
    /\ k \in DOMAIN calls
    /\ d \in calls[k].pending
    /\ val' = settle(d, f)
    /\ calls' = [calls EXCEPT ![k] = resultCallback(calls[k], d, f)]
    /\ IF calls'[k].fired > calls[k].fired
       THEN completion
       ELSE UNCHANGED <<disabled, active>>
    /\ ev' = [type |-> "rollResult", die |-> d, multi |-> FALSE, ok |-> TRUE,
              before |-> <<>>, repeat |-> FALSE]
    /\ UNCHANGED <<checked, leaveBound, clicks, ret>>

\* a roll primitive that may report more than once: it runs the result callback
\* of call k for a die d the call rolled, whether or not d has reported before
deliver(k, d, f) ==
    /\ k \in DOMAIN calls
    /\ d \in Range(calls[k].rolled)
    /\ Len(calls[k].result) < calls[k].len + MaxExtra
    /\ val' = settle(d, f)
    /\ calls' = [calls EXCEPT ![k] = resultCallback(calls[k], d, f)]
    /\ IF calls'[k].fired > calls[k].fired
       THEN completion
       ELSE UNCHANGED <<disabled, active>>
    /\ ev' = [type |-> "rollResult", die |-> d, multi |-> FALSE, ok |-> TRUE,
              before |-> <<>>, repeat |-> FALSE]
    /\ UNCHANGED <<checked, leaveBound, clicks, ret>>

\* a diceClick event of the event specification, counted
click(el, multi) ==
    /\ clicks < MaxClicks
    /\ clicks' = clicks + 1
    /\ diceClick(el, multi)

\* a diceClick event of the selection specification
select(el, multi) == diceClick(el, multi) /\ UNCHANGED clicks

\* a query: fn names the method called, value is what it returns.  A query
\* changes nothing but ret, so a second query on the same panel reaches no state
\* that a first query does not reach: one query is made per panel
query(fn, value) ==
    /\ ret.fn = "none"
    /\ ret' = [fn |-> fn, value |-> value]
    /\ UNCHANGED <<val, checked, disabled, active, leaveBound, calls, clicks, ev>>

\* the query getDieValue(index), recorded with its argument
queryDie(index) ==
    /\ ret.fn = "none"
    /\ ret' = [fn |-> "getDieValue", value |-> getDieValue(index), arg |-> index]
    /\ UNCHANGED <<val, checked, disabled, active, leaveBound, calls, clicks, ev>>

\* ------------------------------------------------------------ specification
NoEvent ==
    [type |-> "none", die |-> 0, multi |-> FALSE, ok |-> TRUE,
     before |-> <<>>, repeat |-> FALSE]
NoReturn == [fn |-> "none", value |-> JsFalse]

\* the panel before any roll, under any selection the player has made
Init ==
    /\ val = [d \in Dice |-> <<>>]
    /\ checked \in [Dice -> BOOLEAN]
    /\ disabled = FALSE
    /\ active = FALSE
    /\ leaveBound = FALSE
    /\ calls = <<>>
    /\ clicks = 0
    /\ ev = NoEvent
    /\ ret = NoReturn

Next ==
    \/ \E ok \in BOOLEAN : buttonHold(ok)
    \/ \E ok \in BOOLEAN : buttonRelease(ok)
    \/ \E ok \in BOOLEAN : buttonLeave(ok)
    \/ \E el \in Dice, multi \in BOOLEAN : click(el, multi)
    \/ \E k \in 1 .. MaxCalls, d \in Dice, f \in 1 .. MaxFace : rollResult(k, d, f)

Spec == Init /\ [][Next]_vars

\* ---------------------------------------------- the selection specification
\* value strings of dice that are unrolled or show a face 1..MaxSelFace
SelVals == {<<>>} \cup {FaceStr(f) : f \in 1 .. MaxSelFace}

\* the panel between rolls: any values, any selection, no roll in flight
SelInit ==
    /\ val \in [Dice -> SelVals]
    /\ checked \in [Dice -> BOOLEAN]
    /\ disabled = FALSE
    /\ active = FALSE
    /\ leaveBound = FALSE
    /\ calls = <<>>
    /\ clicks = 0
    /\ ev = NoEvent
    /\ ret = NoReturn

SelNext == \E el \in Dice, multi \in BOOLEAN : select(el, multi)

SelSpec == SelInit /\ [][SelNext]_vars

\* -------------------------------------------- the combination specification
\* value strings: empty (never rolled), a face 1..6, or not a number
RawVals == {<<>>, <<"x">>} \cup {FaceStr(f) : f \in 1 .. NumFaces}

CombInit ==
    /\ val \in [Dice -> RawVals]
    /\ checked = [d \in Dice |-> FALSE]
    /\ disabled = FALSE
    /\ active = FALSE
    /\ leaveBound = FALSE
    /\ calls = <<>>
    /\ clicks = 0
    /\ ev = NoEvent
    /\ ret = NoReturn

CombNext ==
    \/ \E index \in 0 .. NumDice : queryDie(index)
    \/ query("getDiceValues", getDiceValues)
    \/ query("getDiceTotal", getDiceTotal)
    \/ query("getDiceCounts", getDiceCounts)
    \/ query("isThreeOfaKind", isThreeOfaKind)
    \/ query("isFourOfaKind", isFourOfaKind)
    \/ query("isFullhouse", isFullhouse)
    \/ query("isStreet", isStreet)
    \/ query("isYam", isYam)

CombSpec == CombInit /\ [][CombNext]_vars

\* --------------------------------------- the repeated-delivery specification
\* the panel as constructed; the roll button is used and the roll primitive
\* may run a result callback again for a die that has reported
DupInit == Init

DupNext ==
    \/ \E ok \in BOOLEAN : buttonHold(ok)
    \/ \E ok \in BOOLEAN : buttonRelease(ok)
    \/ \E ok \in BOOLEAN : buttonLeave(ok)
    \/ \E k \in 1 .. MaxCalls, d \in Dice, f \in 1 .. MaxFace : deliver(k, d, f)

DupSpec == DupInit /\ [][DupNext]_vars

\* ================================================================== claims

\* the checked dice, and the events that call rollDice
Checked == {d \in Dice : checked[d]}
RollEvents == {"buttonHold", "buttonRelease", "buttonLeave"}
Occurrences(seq, x) == Cardinality({i \in DOMAIN seq : seq[i] = x})

\* C1: a rollDice call with a callback that dispatched n >= 1 rolls has invoked
\* the callback not at all while fewer than n results are recorded and exactly
\* once from the step that records the n-th, whatever the arrival order
C1_CallbackOnceAtLastResult ==
    \A k \in DOMAIN calls :
        (calls[k].hasCallback /\ calls[k].len >= 1) =>
            /\ Len(calls[k].result) <= calls[k].len
            /\ calls[k].fired = IF Len(calls[k].result) = calls[k].len THEN 1 ELSE 0

\* the one call rolled all five dice, its callback has run once, and the result
\* recorded last, in the step just taken, was that of the first die
C1_Witness ==
    /\ Len(calls) = 1
    /\ calls[1].hasCallback
    /\ calls[1].len = NumDice
    /\ calls[1].fired = 1
    /\ ev.type = "rollResult"
    /\ ev.die = 0

\* C2: every rollDice call made with a callback is joined: once every roll it
\* dispatched has delivered its result, the callback has been invoked
C2_CallbackOnceAllDelivered ==
    \A k \in DOMAIN calls :
        (calls[k].hasCallback /\ calls[k].pending = {}) => calls[k].fired >= 1

\* C3: the rollDice call just made invoked roll() once on every die that is
\* not checked and on no die that is checked; with k dice checked it
\* dispatched 5 - k rolls and its threshold len is 5 - k
C3_RollsExactlyTheUnchecked ==
    (ev.type \in RollEvents /\ ev.ok) =>
        LET c == calls[Len(calls)]
        IN  /\ \A d \in Dice : Occurrences(c.rolled, d) = IF checked[d] THEN 0 ELSE 1
            /\ Len(c.rolled) = NumDice - Cardinality(Checked)
            /\ c.len = NumDice - Cardinality(Checked)
            /\ c.pending = Dice \ Checked

\* an accepted buttonRelease called rollDice with two dice checked
C3_Witness ==
    /\ ev.type = "buttonRelease"
    /\ ev.ok
    /\ Cardinality(Checked) = 2
    /\ calls[Len(calls)].len = 3

\* C4: filter(isChecked) returns, in index order, exactly the dice whose checked
\* state equals the argument
C4_FilterReturnsSameState ==
    \A isChecked \in BOOLEAN :
        filter(isChecked) = SelectSeq(DiceSeq, LAMBDA d : checked[d] = isChecked)

\* C5: a diceClick with the modifier on a die showing v whose checked state was
\* c leaves every die showing v with state ~c and every other die as it was;
\* from no die checked, the checked dice become exactly those showing v
C5_BulkSelectByValue ==
    [][(ev'.type = "diceClick" /\ ev'.multi) =>
        LET v == val[ev'.die]
            c == checked[ev'.die]
        IN  /\ \A d \in Dice : checked'[d] = IF val[d] = v THEN ~c ELSE checked[d]
            /\ (Checked = {}) => (\A d \in Dice : checked'[d] <=> val[d] = v)]_vars

\* a click with the modifier on die 0 has just been handled: the three dice
\* showing its value are checked, and the two dice showing other values, one
\* checked and one not, are as a click on value alone leaves them
C5_Witness ==
    /\ ev.type = "diceClick"
    /\ ev.multi
    /\ ev.die = 0
    /\ val[0] = val[1] /\ val[0] = val[2] /\ val[3] # val[0] /\ val[4] # val[0]
    /\ checked[0] /\ checked[1] /\ checked[2] /\ checked[3] /\ ~checked[4]

\* C11: a diceClick without the modifier on die i flips the checked flag of
\* die i and changes no other flag and no value; a second such click on the
\* same die, right after the first, restores the selection before the first
C11_SingleClickFlipsOne ==
    [][(ev'.type = "diceClick" /\ ~ev'.multi) =>
        /\ checked' = [checked EXCEPT ![ev'.die] = ~checked[ev'.die]]
        /\ val' = val
        /\ ev'.repeat => checked' = ev.before]_vars

\* die 2 has just been clicked twice in a row without the modifier, with
\* another die checked throughout
C11_Witness ==
    /\ ev.type = "diceClick"
    /\ ~ev.multi
    /\ ev.repeat
    /\ ev.die = 2
    /\ ~checked[2]
    /\ checked[4]

\* the face a value string denotes, 0 when it denotes none
FaceOf(s) ==
    IF \E f \in 1 .. NumFaces : s = FaceStr(f)
    THEN CHOOSE f \in 1 .. NumFaces : s = FaceStr(f)
    ELSE 0

\* C12: getDieValue(i) returns 0 when die i has no value, an empty value or a
\* value that is no number, and the face otherwise; getDiceValues() returns
\* exactly 5 integers, the values of dice 0..4 in that order
C12_ValuesDefaultToZero ==
    /\ ret.fn = "getDieValue" =>
           /\ ret.value \in 0 .. NumFaces
           /\ (ret.arg \notin Dice) => ret.value = 0
           /\ (ret.arg \in Dice) => ret.value = FaceOf(val[ret.arg])
    /\ ret.fn = "getDiceValues" =>
           /\ DOMAIN ret.value = 1 .. NumDice
           /\ \A k \in 1 .. NumDice : ret.value[k] \in 0 .. NumFaces
           /\ \A k \in 1 .. NumDice : ret.value[k] = FaceOf(val[k - 1])

\* getDiceValues() was called with die 0 empty, die 1 not a number, die 2
\* showing 4 and the last two dice never rolled
C12_Witness ==
    /\ ret.fn = "getDiceValues"
    /\ val[0] = <<>>
    /\ val[1] = <<"x">>
    /\ val[2] = FaceStr(4)
    /\ val[3] = <<>> /\ val[4] = <<>>
    /\ ret.value = <<0, 0, 4, 0, 0>>

\* C13: a rollDice call is made only by a buttonHold or buttonRelease whose
\* gate (isValidTurn(), handleTurn()) returned true; a handler whose gate
\* returned false dispatches no roll and changes no die value, no checked
\* state and not the button's disabled state
C13_GateGuardsRoll ==
    [][/\ (Len(calls') > Len(calls)) => (ev'.type \in RollEvents /\ ev'.ok)
       /\ (ev'.type \in RollEvents /\ ~ev'.ok) =>
              /\ calls' = calls
              /\ val' = val
              /\ checked' = checked
              /\ disabled' = disabled]_vars

\* handleTurn() has just denied a buttonRelease that followed an accepted
\* buttonHold: the juggling call is the only call and the button is enabled
C13_Witness ==
    /\ ev.type = "buttonRelease"
    /\ ~ev.ok
    /\ Len(calls) = 1
    /\ calls[1].keepJuggling
    /\ calls[1].pending # {}
    /\ ~disabled

\* a rollDice call made with all five dice checked
ZeroTarget(c) == c.len = 0

\* at every call made with all five dice checked no roll is dispatched and the
\* callback has not been invoked; right after an accepted release in that state
\* the button is disabled
C14_State ==
    /\ \A k \in DOMAIN calls :
           ZeroTarget(calls[k]) =>
               /\ calls[k].rolled = <<>>
               /\ calls[k].pending = {}
               /\ calls[k].result = <<>>
               /\ calls[k].fired = 0
    /\ (ev.type \in {"buttonRelease", "buttonLeave"} /\ ev.ok /\ Checked = Dice) =>
           (disabled /\ ZeroTarget(calls[Len(calls)]))

\* C14: a rollDice call made with all five dice checked dispatches no roll and
\* never invokes its callback; the button an accepted release disabled in that
\* state is re-enabled only by the callback of a call that rolled a die, so
\* never by that release
C14_ZeroTargetsNeverJoin ==
    [][/\ C14_State'
       /\ \A k \in DOMAIN calls :
              ZeroTarget(calls[k]) => calls'[k] = calls[k]
       /\ (disabled /\ ~disabled') =>
              \E k \in DOMAIN calls :
                  /\ ~ZeroTarget(calls[k])
                  /\ calls[k].hasCallback
                  /\ calls'[k].fired > calls[k].fired]_vars

\* an accepted release found all five dice checked; a click has been handled
\* since, and the button is still disabled with the callback not invoked
C14_Witness ==
    /\ Len(calls) = 1
    /\ calls[1].hasCallback
    /\ ZeroTarget(calls[1])
    /\ calls[1].fired = 0
    /\ disabled
    /\ ev.type = "diceClick"

\* C15: the checked flag of a die changes only in a diceClick step: a rollDice
\* dispatch, a result callback and the callback passed by buttonRelease leave
\* every flag as it was
C15_HeldPersistsAcrossRolls ==
    [][/\ (checked' # checked) => ev'.type = "diceClick"
       /\ (ev'.type \in RollEvents \cup {"rollResult"}) =>
              \A d \in Dice : checked'[d] = checked[d]]_vars

\* a released roll of three dice has completed, its callback has re-enabled the
\* button, and the two checked dice are still checked and still unrolled
C15_Witness ==
    /\ Len(calls) = 1
    /\ calls[1].hasCallback
    /\ calls[1].len = 3
    /\ calls[1].fired = 1
    /\ ev.type = "rollResult"
    /\ ~disabled
    /\ Checked = {1, 3}
    /\ val[1] = <<>>
    /\ val[3] = <<>>

\* C16: the dice of a rollDice call are fixed when it is made: a diceClick,
\* single or bulk, changes no call; no step changes the dice or the threshold
\* of a call already made; a result is recorded for a rolled die whatever its
\* checked state has become, and the callback is invoked in the step that
\* records the n-th result and in no other; a value changes only when the
\* result of a die the call rolled arrives, so a die unchecked since is not
\* rolled
C16_TargetsAreASnapshot ==
    [][/\ (ev'.type = "diceClick") => calls' = calls
       /\ \A k \in DOMAIN calls :
              /\ calls'[k].rolled = calls[k].rolled
              /\ calls'[k].len = calls[k].len
              /\ calls'[k].pending \subseteq calls[k].pending
              /\ (calls'[k].fired # calls[k].fired) <=>
                     /\ calls[k].hasCallback
                     /\ Len(calls[k].result) = calls[k].len - 1
                     /\ Len(calls'[k].result) = calls[k].len
       /\ (ev'.type = "rollResult") =>
              \E k \in DOMAIN calls :
                  /\ ev'.die \in Range(calls[k].rolled)
                  /\ ev'.die \in calls[k].pending
                  /\ ev'.die \notin calls'[k].pending
                  /\ Len(calls'[k].result) = Len(calls[k].result) + 1
                  /\ val'[ev'.die] # <<>>
       /\ \A d \in Dice :
              (val'[d] # val[d]) => (ev'.type = "rollResult" /\ ev'.die = d)]_vars

\* die 0 was checked when the released roll was made and die 2 was not; a click
\* has checked die 2 since, and the result of die 2, the fourth and last of
\* the call, has just been recorded and the callback invoked
C16_Witness ==
    /\ Len(calls) = 1
    /\ calls[1].hasCallback
    /\ calls[1].rolled = <<1, 2, 3, 4>>
    /\ calls[1].fired = 1
    /\ clicks = 1
    /\ Checked = {0, 2}
    /\ ev.type = "rollResult"
    /\ ev.die = 2
    /\ val[2] # <<>>
    /\ val[0] = <<>>

\* C17: each rollDice call has its own accumulator: a result delivered to one
\* call changes the record of that call alone, so while the juggling roll of
\* buttonHold is in flight the callback of the roll made by buttonRelease has
\* been invoked only if every die of its own call has reported
C17_CallsJoinIndependently ==
    [][/\ \A k \in DOMAIN calls :
              (calls'[k] # calls[k]) =>
                  /\ ev'.type = "rollResult"
                  /\ ev'.die \in calls[k].pending
                  /\ \A j \in DOMAIN calls \ {k} : calls'[j] = calls[j]
       /\ \A k \in DOMAIN calls' :
              (calls'[k].fired > 0) =>
                  /\ calls'[k].pending = {}
                  /\ Len(calls'[k].result) = calls'[k].len]_vars

\* the juggling roll of buttonHold has two of its five results and the roll
\* of buttonRelease, made while it was in flight, has all five of its own and
\* has invoked the callback
C17_Witness ==
    /\ Len(calls) = 2
    /\ calls[1].keepJuggling
    /\ ~calls[1].hasCallback
    /\ calls[1].len = NumDice
    /\ Len(calls[1].result) = 2
    /\ calls[2].hasCallback
    /\ calls[2].len = NumDice
    /\ calls[2].pending = {}
    /\ calls[2].fired = 1

\* C18: the callback of a rollDice call has been invoked at most once, also
\* when the roll primitive reports a die more than once or reports more
\* results than the call dispatched rolls: a step taken once the result array
\* holds len values or more does not invoke it
C18_CallbackAtMostOnce ==
    [][/\ \A k \in DOMAIN calls' : calls'[k].fired <= 1
       /\ \A k \in DOMAIN calls :
              (Len(calls[k].result) >= calls[k].len) =>
                  calls'[k].fired = calls[k].fired]_vars

\* a released roll of two dice has received three results, two of them for
\* die 4 and none for die 3, and its callback has been invoked once
C18_Witness ==
    /\ Len(calls) = 1
    /\ calls[1].hasCallback
    /\ calls[1].rolled = <<3, 4>>
    /\ Len(calls[1].result) = 3
    /\ calls[1].pending = {3}
    /\ calls[1].fired = 1
    /\ ev.type = "rollResult"

\* the dice showing face f, and the set of values shown
Showing(f) == {d \in Dice : getDieValue(d) = f}
Shown == {getDieValue(d) : d \in Dice}

\* C6: whenever isYam() returns true isFourOfaKind() is true, and whenever
\* isFourOfaKind() returns true isThreeOfaKind() is true
C6_MonotonicThresholds ==
    /\ (ret.fn = "isYam" /\ Truthy(ret.value)) => Truthy(isFourOfaKind)
    /\ (ret.fn = "isFourOfaKind" /\ Truthy(ret.value)) => Truthy(isThreeOfaKind)

\* C7 as stated: the six entries of getDiceCounts() sum to exactly 5 in every
\* dice state, unrolled dice included
C7_CountsSumToFive ==
    ret.fn = "getDiceCounts" => SumSeq(ret.value) = NumDice

\* C7 as amended: getDiceCounts() has six entries and they sum to 5 less the
\* number of dice whose value is 0
C7_CountsSumToRolled ==
    ret.fn = "getDiceCounts" =>
        /\ Len(ret.value) = NumFaces
        /\ SumSeq(ret.value) = NumDice - Cardinality(Showing(0))

\* getDiceCounts() was called with two dice unrolled and three showing a face
C7_Witness ==
    /\ ret.fn = "getDiceCounts"
    /\ Cardinality(Showing(0)) = 2
    /\ SumSeq(ret.value) = 3

\* C8: isStreet() returns a truthy value exactly when the five values are a
\* permutation of 1..5 or of 2..6
C8_StreetIffRun ==
    ret.fn = "isStreet" =>
        (Truthy(ret.value) <=> (Shown = 1 .. 5 \/ Shown = 2 .. 6))

\* isStreet() was truthy on a run 2..6 that is not in index order
C8_Witness ==
    /\ ret.fn = "isStreet"
    /\ Truthy(ret.value)
    /\ getDieValue(0) = 6
    /\ getDieValue(4) = 3

\* C9: isFullhouse() returns true exactly when some face is shown by exactly 3
\* dice and some face by exactly 2, or some face by all 5; so it is true whenever
\* isYam() is, and false for four of a kind with a singleton
C9_FullhouseIffThreeTwoOrFive ==
    ret.fn = "isFullhouse" =>
        /\ ret.value.t = "boolean"
        /\ Truthy(ret.value) <=>
               \/ /\ \E f \in 1 .. NumFaces : Cardinality(Showing(f)) = 3
                  /\ \E f \in 1 .. NumFaces : Cardinality(Showing(f)) = 2
               \/ \E f \in 1 .. NumFaces : Cardinality(Showing(f)) = NumDice
        /\ Truthy(isYam) => Truthy(ret.value)
        /\ (\E f \in 1 .. NumFaces : Cardinality(Showing(f)) = 4) => ~Truthy(ret.value)

\* isFullhouse() returned true on five dice showing the same face
C9_Witness ==
    /\ ret.fn = "isFullhouse"
    /\ Truthy(ret.value)
    /\ Cardinality(Showing(6)) = NumDice

\* C10: isStreet() returns a Boolean in every dice state
C10_StreetReturnsBoolean ==
    ret.fn = "isStreet" => ret.value.t = "boolean"

====
